---- MODULE Spec2Model ----
(***************************************************************************)
(* A model of the crawl / index / retrieve stack:                          *)
(*   src/src/crawler/crawler.py     Crawler.crawl                          *)
(*   src/src/indexer/indexer.py     Indexer.build_index                    *)
(*   src/src/retriever/retriever.py Retriever.search_query, _and_, _or_,   *)
(*                                  _not_                                  *)
(* The specifications share the variables:                                 *)
(*   Spec           build_index, file by file and token by token           *)
(*   SpecQuery      search_query over a loaded index, step by step         *)
(*   SpecMerge      _and_, _or_, _not_ called on drawn arguments           *)
(*   SpecCrawl      crawl, one iteration of its loop at a time             *)
(*   SpecCrawlFair  SpecCrawl with the loop weakly fair                    *)
(* Document ids are 0-based as in the code; TLA+ sequences are 1-based, so *)
(* documents[id + 1] is the code's documents[id].                          *)
(***************************************************************************)
EXTENDS Integers, Sequences, FiniteSets, TLC

(***************************************************************************)
(* Bounds of the model.                                                    *)
(***************************************************************************)
MaxDocs == 2
MaxWords == 2

\* The words a cleaned text is made of, and the urls of the crawled files.
Words == {"grado", "master", "en"}
Urls == {"u1", "u2"}

\* nltk's Spanish stopword list, cut down to the one member among Words.
stop_words == {"en"}

\* Python's None where a list is expected: a value that is no list of ids.
None == <<-1>>

\* The accumulator shares its list object with no postings list.
NoAlias == ""

\* The urls of the crawled site, and the largest args.max_webs.
Web == {"w1", "w2", "w3"}
MaxWebs == 4

\* No HTTP GET has been made yet.
NoResponse == [url |-> "", status |-> "none"]

VARIABLES
    ingested,       \* the files read so far by build_index, in order
    documents,      \* index.documents
    postings,       \* index.postings: a function whose DOMAIN is the key set
    tokens,         \* build_index: the tokens of the current file still to index
    doc_id,         \* build_index: the id of the current file
    saved,          \* build_index: TRUE once index.save has run
    posting_a,      \* a merge primitive's first argument
    posting_b,      \* a merge primitive's second argument
    merge_op,       \* the merge primitive called last
    merge_result,   \* what that call returned
    query,          \* search_query: the query string of the current call
    terms,          \* search_query: the tokens of the query not yet popped
    temp_postings,  \* search_query: the accumulator, None while unset
    acc_alias,      \* search_query: the postings key whose list object the
                    \* accumulator is, NoAlias when it is an object of its own
    results,        \* search_query: the list returned, None while there is none
    q_pc,           \* search_query: "idle", "loop", "returned" or "raised"
    links,          \* the web: the urls find_urls finds in the page of each url
    max_webs,       \* args.max_webs
    queue,          \* crawl: the frontier queue, oldest url first
    visited,        \* Crawler.visited
    crawled_count,  \* crawl: the pages saved by this call
    response,       \* crawl: the url and outcome of the last HTTP GET
    pages,          \* the files save_page has written, in order
    c_pc            \* crawl: "idle", "loop" or "done"

indexer_vars == <<ingested, documents, postings, tokens, doc_id, saved>>
merge_vars == <<posting_a, posting_b, merge_op, merge_result>>
query_vars == <<query, terms, temp_postings, acc_alias, results, q_pc>>
index_rest == <<ingested, documents, tokens, doc_id, saved>>
crawl_vars == <<links, max_webs, queue, visited, crawled_count, response, pages, c_pc>>
vars == <<indexer_vars, merge_vars, query_vars, crawl_vars>>

(***************************************************************************)
(* Helpers.                                                                *)
(***************************************************************************)
\* All sequences over S of length at most n.
SeqsUpTo(S, n) == UNION {[1..k -> S] : k \in 0..n}

\* Python's `x in list`.
InList(x, list) == \E i \in 1..Len(list) : list[i] = x

\* The elements of a list, as a set.
ListSet(list) == {list[i] : i \in 1..Len(list)}

\* A list of integers is strictly ascending (hence duplicate-free).
StrictlyAscending(list) ==
    \A i \in 1..Len(list) : \A j \in 1..Len(list) : i < j => list[i] < list[j]

\* dict.get with a default of [0] for a missing key.
GetFirstDocument(dict, key) == IF key \in DOMAIN dict THEN dict[key] ELSE <<0>>

\* dict.get(key, []).
Get(dict, key) == IF key \in DOMAIN dict THEN dict[key] ELSE <<>>

(***************************************************************************)
(* Strings.  A text or a query is a TLA+ string; TLC treats a string as    *)
(* the sequence of its characters (Len, Head, Tail, SubSeq, \o).           *)
(***************************************************************************)
\* The index of the first blank of s, Len(s) + 1 when it has none.
first_blank(s) ==
    CHOOSE i \in 1..(Len(s) + 1) :
        /\ i = Len(s) + 1 \/ SubSeq(s, i, i) = " "
        /\ \A j \in 1..(i - 1) : SubSeq(s, j, j) # " "

\* str.split(): the maximal runs of non-blank characters of s, in order,
\* read one run at a time.
RECURSIVE split(_)
split(s) ==
    IF s = "" THEN <<>>
    ELSE LET i == first_blank(s)
         IN  IF i > Len(s) THEN <<s>>
             ELSE IF i = 1 THEN split(SubSeq(s, 2, Len(s)))
             ELSE <<SubSeq(s, 1, i - 1)>> \o split(SubSeq(s, i + 1, Len(s)))

\* " ".join(words).
RECURSIVE join(_)
join(words) ==
    IF words = <<>> THEN ""
    ELSE IF Len(words) = 1 THEN Head(words)
    ELSE Head(words) \o " " \o join(Tail(words))

(***************************************************************************)
(* Indexer (indexer.py).                                                   *)
(* A file of the input folder is [url, text].  The texts of the model are  *)
(* lower-case words separated by blanks, on which parse, remove_split_-    *)
(* symbols and remove_punctuation change nothing and word_tokenize splits  *)
(* as str.split() does.                                                    *)
(***************************************************************************)
Files == [url : Urls, text : {join(ws) : ws \in SeqsUpTo(Words, MaxWords)}]

remove_elongated_spaces(text) == join(split(text))

\* tokenize splitting at each single blank, as text.split(" ") does.
tokenize_on_blank(text) == IF text = "" THEN <<"">> ELSE split(text)

\* Line 130, the fallback of line 128 when NLTK has no resources; the texts
\* are lower-case words and blanks, which both split in the same way.
tokenize(text) == split(text)

\* remove_stopwords that removes nothing.
remove_nothing(words) == words

remove_stopwords(words) == SelectSeq(words, LAMBDA word : word \notin stop_words)

Document(id, title, url, text) ==
    [id |-> id, title |-> title, url |-> url, text |-> text]

\* Lines 77-84: the tokens of a file, stopwords removed.
file_tokens(data) == remove_stopwords(tokenize(remove_elongated_spaces(data.text)))

\* next_doc_id counting from 1.
next_doc_id_from_one(docs) == Len(docs) + 1

\* Line 87: the next document id.
next_doc_id(docs) == Len(docs)

\* Lines 87-89: the Document of a file; its title is its url.
new_document(docs, data) ==
    Document(next_doc_id(docs), data.url, data.url, remove_elongated_spaces(data.text))

\* UpdatePosting without the membership test of line 97.
UpdatePostingAppendAlways(p, token, id) ==
    LET p1 == IF token \notin DOMAIN p THEN p @@ (token :> <<>>) ELSE p
    IN  [p1 EXCEPT ![token] = Append(@, id)]

\* Lines 95-98: one pass of the loop body over `token`.
UpdatePosting(p, token, id) ==
    LET p1 == IF token \notin DOMAIN p THEN p @@ (token :> <<>>) ELSE p
    IN  IF ~InList(id, p1[token])
        THEN [p1 EXCEPT ![token] = Append(@, id)]
        ELSE p1

\* Lines 68-90: read the next file of the input folder, clean and tokenize it,
\* and append its Document.
ReadFile ==
    /\ ~saved
    /\ tokens = <<>>
    /\ Len(documents) < MaxDocs
    /\ \E data \in Files :
        /\ ingested' = Append(ingested, data)
        /\ tokens' = file_tokens(data)
        /\ doc_id' = next_doc_id(documents)
        /\ documents' = Append(documents, new_document(documents, data))
    /\ UNCHANGED <<crawl_vars, postings, saved, merge_vars, query_vars>>

\* Lines 94-98: one iteration of `for token in tokens`.
IndexToken ==
    /\ ~saved
    /\ tokens # <<>>
    /\ postings' = UpdatePosting(postings, Head(tokens), doc_id)
    /\ tokens' = Tail(tokens)
    /\ UNCHANGED <<crawl_vars, ingested, documents, doc_id, saved, merge_vars, query_vars>>

\* Lines 101-107: the folder is exhausted; the index is saved.
SaveIndex ==
    /\ ~saved
    /\ tokens = <<>>
    /\ saved' = TRUE
    /\ UNCHANGED <<crawl_vars, ingested, documents, postings, tokens, doc_id, merge_vars, query_vars>>

(***************************************************************************)
(* Retriever (retriever.py): the merge primitives.                         *)
(* A loop is a recursive operator over its state [i, j, result]; indices   *)
(* are the code's 0-based ones, so the code's posting_a[i] is              *)
(* posting_a[i + 1] here.                                                  *)
(***************************************************************************)
\* Python's `not x` for a list or None.
Falsy(x) == x = None \/ x = <<>>

\* and_body with the `<` branch advancing the wrong pointer.
and_body_wrong_pointer(posting_a_, posting_b_, st) ==
    IF posting_a_[st.i + 1] = posting_b_[st.j + 1]
    THEN [i |-> st.i + 1, j |-> st.j + 1, result |-> Append(st.result, posting_a_[st.i + 1])]
    ELSE IF posting_a_[st.i + 1] < posting_b_[st.j + 1]
         THEN [st EXCEPT !.j = @ + 1]
         ELSE [st EXCEPT !.i = @ + 1]

\* Lines 118-125: one iteration of _and_'s loop.
and_body(posting_a_, posting_b_, st) ==
    IF posting_a_[st.i + 1] = posting_b_[st.j + 1]
    THEN [i |-> st.i + 1, j |-> st.j + 1, result |-> Append(st.result, posting_a_[st.i + 1])]
    ELSE IF posting_a_[st.i + 1] < posting_b_[st.j + 1]
         THEN [st EXCEPT !.i = @ + 1]
         ELSE [st EXCEPT !.j = @ + 1]

\* Lines 117-126: _and_'s while loop and its return.
RECURSIVE and_while(_, _, _)
and_while(posting_a_, posting_b_, st) ==
    IF st.i < Len(posting_a_) /\ st.j < Len(posting_b_)
    THEN and_while(posting_a_, posting_b_, and_body(posting_a_, posting_b_, st))
    ELSE st.result

\* _and_ taking an unset posting_a for "no restriction yet".
and_from_unset(posting_a_, posting_b_) ==
    IF posting_a_ = None THEN posting_b_
    ELSE IF Falsy(posting_a_) \/ Falsy(posting_b_)
    THEN <<>>
    ELSE and_while(posting_a_, posting_b_, [i |-> 0, j |-> 0, result |-> <<>>])

_and_(posting_a_, posting_b_) ==
    IF Falsy(posting_a_) \/ Falsy(posting_b_)
    THEN <<>>
    ELSE and_while(posting_a_, posting_b_, [i |-> 0, j |-> 0, result |-> <<>>])

\* append_new without the check of the last element.
append_always(result, x) == Append(result, x)

\* Lines 148-149 and 152-153: append x unless it is the last element already.
append_new(result, x) ==
    IF result = <<>> \/ result[Len(result)] # x THEN Append(result, x) ELSE result

\* Lines 147-154: one iteration of _or_'s loop: its two `if`s in sequence, the
\* second reading the i the first may have advanced.
or_body(posting_a_, posting_b_, st) ==
    LET s1 == IF /\ st.i < Len(posting_a_)
                 /\ \/ st.j >= Len(posting_b_)
                    \/ posting_a_[st.i + 1] <= posting_b_[st.j + 1]
              THEN [st EXCEPT !.result = append_new(@, posting_a_[st.i + 1]),
                              !.i = @ + 1]
              ELSE st
    IN  IF /\ s1.j < Len(posting_b_)
           /\ \/ s1.i >= Len(posting_a_)
              \/ posting_b_[s1.j + 1] <= posting_a_[s1.i + 1]
        THEN [s1 EXCEPT !.result = append_new(@, posting_b_[s1.j + 1]),
                        !.j = @ + 1]
        ELSE s1

\* Lines 146-155: _or_'s while loop and its return.
RECURSIVE or_while(_, _, _)
or_while(posting_a_, posting_b_, st) ==
    IF st.i < Len(posting_a_) \/ st.j < Len(posting_b_)
    THEN or_while(posting_a_, posting_b_, or_body(posting_a_, posting_b_, st))
    ELSE st.result

_or_(posting_a_, posting_b_) ==
    IF Falsy(posting_a_) THEN posting_b_
    ELSE IF Falsy(posting_b_) THEN posting_a_
    ELSE or_while(posting_a_, posting_b_, [i |-> 0, j |-> 0, result |-> <<>>])

\* sorted in descending order.
RECURSIVE sorted_descending(_)
sorted_descending(S) ==
    IF S = {} THEN <<>>
    ELSE LET most == CHOOSE x \in S : \A y \in S : x >= y
         IN  <<most>> \o sorted_descending(S \ {most})

\* sorted(list(S)) for a set S of integers.
RECURSIVE sorted(_)
sorted(S) ==
    IF S = {} THEN <<>>
    ELSE LET least == CHOOSE x \in S : \A y \in S : x <= y
         IN  <<least>> \o sorted(S \ {least})

\* range with its bound included.
range_inclusive(n) == 0..n

\* set(range(n)).
range(n) == 0..(n - 1)

\* _not_ taking the documents to be numbered from 1.
_not_from_one(posting_a_) ==
    LET all_docs == 1..Len(documents)
        excluded_docs == ListSet(posting_a_)
    IN  sorted(all_docs \ excluded_docs)

\* Lines 167-169; the universe is the loaded index's document table.
_not_(posting_a_) ==
    LET all_docs == range(Len(documents))
        excluded_docs == ListSet(posting_a_)
    IN  sorted(all_docs \ excluded_docs)

(***************************************************************************)
(* A whole run of build_index over the files of a folder, as one value:    *)
(* the index that Index.save pickles and Retriever.load_index reads back.  *)
(***************************************************************************)
RECURSIVE index_tokens(_, _, _)
index_tokens(p, toks, id) ==
    IF toks = <<>> THEN p
    ELSE index_tokens(UpdatePosting(p, Head(toks), id), Tail(toks), id)

RECURSIVE build_index(_)
build_index(files) ==
    IF files = <<>>
    THEN [documents |-> <<>>, postings |-> <<>>]
    ELSE LET index == build_index(SubSeq(files, 1, Len(files) - 1))
             data == files[Len(files)]
         IN  [documents |-> Append(index.documents, new_document(index.documents, data)),
              postings |-> index_tokens(index.postings, file_tokens(data),
                                        next_doc_id(index.documents))]

\* Retriever.__init__ has loaded the index built from `files`.
Loaded(files) ==
    /\ ingested = files
    /\ documents = build_index(files).documents
    /\ postings = build_index(files).postings
    /\ tokens = <<>>
    /\ doc_id = IF files = <<>> THEN 0 ELSE Len(files) - 1
    /\ saved = TRUE

\* No merge primitive has been called.
MergeIdle ==
    /\ posting_a = <<>>
    /\ posting_b = <<>>
    /\ merge_op = "none"
    /\ merge_result = None

\* search_query has not been called.
QueryIdle ==
    /\ query = ""
    /\ terms = <<>>
    /\ temp_postings = None
    /\ acc_alias = NoAlias
    /\ results = None
    /\ q_pc = "idle"

\* No Crawler has been made.
CrawlIdle ==
    /\ links = [url \in Web |-> {}]
    /\ max_webs = 0
    /\ queue = <<>>
    /\ visited = {}
    /\ crawled_count = 0
    /\ response = NoResponse
    /\ pages = <<>>
    /\ c_pc = "idle"

Init ==
    /\ ingested = <<>>
    /\ documents = <<>>
    /\ postings = <<>>
    /\ tokens = <<>>
    /\ doc_id = 0
    /\ saved = FALSE
    /\ MergeIdle
    /\ QueryIdle
    /\ CrawlIdle

Next == ReadFile \/ IndexToken \/ SaveIndex

Spec == Init /\ [][Next]_vars

(***************************************************************************)
(* Crawler (crawler.py): crawl, one action per outcome of an iteration of  *)
(* its loop.  The web is a link graph drawn at the start; whether a GET    *)
(* fails, and whether a page has text, is drawn at each GET.               *)
(***************************************************************************)
\* The orders in which `for url in <set>` may run over the set S.
Orders(S) ==
    {l \in [1..Cardinality(S) -> S] : \A i, j \in 1..Cardinality(S) : i # j => l[i] # l[j]}

\* already_visited that finds no url visited.
never_visited(url, seen) == FALSE

\* Line 29: `current_url in self.visited`.
already_visited(url, seen) == url \in seen

\* after_failure putting the url back at the end of the queue.
retry_after_failure(rest, url) == Append(rest, url)

\* Lines 43-45: the queue after a failed GET: the url is dropped.
after_failure(rest, url) == rest

\* Line 84: the file save_page writes, named after len(self.visited).
page_file(seen, url) == [filename |-> Cardinality(seen), url |-> url]

\* Line 27: the loop condition.
loop_condition == queue # <<>> /\ crawled_count < max_webs

\* Lines 28-30: the url taken from the queue was visited before.
SkipVisited ==
    /\ c_pc = "loop"
    /\ loop_condition
    /\ already_visited(Head(queue), visited)
    /\ queue' = Tail(queue)
    /\ UNCHANGED <<indexer_vars, merge_vars, query_vars>>
    /\ UNCHANGED <<links, max_webs, visited, crawled_count, response, pages, c_pc>>

\* Lines 28-45: the GET raises a RequestException.
FetchFails ==
    /\ c_pc = "loop"
    /\ loop_condition
    /\ ~already_visited(Head(queue), visited)
    /\ response' = [url |-> Head(queue), status |-> "error"]
    /\ queue' = after_failure(Tail(queue), Head(queue))
    /\ UNCHANGED <<indexer_vars, merge_vars, query_vars>>
    /\ UNCHANGED <<links, max_webs, visited, crawled_count, pages, c_pc>>

\* Lines 28-50: the GET succeeds and extract_text finds no text.
EmptyText ==
    /\ c_pc = "loop"
    /\ loop_condition
    /\ ~already_visited(Head(queue), visited)
    /\ response' = [url |-> Head(queue), status |-> "empty"]
    /\ queue' = Tail(queue)
    /\ UNCHANGED <<indexer_vars, merge_vars, query_vars>>
    /\ UNCHANGED <<links, max_webs, visited, crawled_count, pages, c_pc>>

\* Lines 28-62: the GET succeeds and the page has text: it is saved, marked
\* visited and counted, and its links not yet visited are enqueued.
SavePage ==
    /\ c_pc = "loop"
    /\ loop_condition
    /\ ~already_visited(Head(queue), visited)
    /\ LET current_url == Head(queue)
       IN  /\ response' = [url |-> current_url, status |-> "ok"]
           /\ pages' = Append(pages, page_file(visited, current_url))
           /\ visited' = visited \cup {current_url}
           /\ crawled_count' = crawled_count + 1
           /\ \E found \in Orders({url \in links[current_url] : url \notin visited'}) :
                queue' = Tail(queue) \o found
    /\ UNCHANGED <<indexer_vars, merge_vars, query_vars>>
    /\ UNCHANGED <<links, max_webs, c_pc>>

\* Line 27: the loop condition is false; crawl returns.
LoopExit ==
    /\ c_pc = "loop"
    /\ ~loop_condition
    /\ c_pc' = "done"
    /\ UNCHANGED <<indexer_vars, merge_vars, query_vars>>
    /\ UNCHANGED <<links, max_webs, queue, visited, crawled_count, response, pages>>

\* Lines 14-16 and 22-24: a new Crawler whose crawl has put args.url in its
\* queue, on any web and for any max_webs.
InitCrawl ==
    /\ links \in [Web -> SUBSET Web]
    /\ max_webs \in 0..MaxWebs
    /\ queue = <<"w1">>
    /\ visited = {}
    /\ crawled_count = 0
    /\ response = NoResponse
    /\ pages = <<>>
    /\ c_pc = "loop"
    /\ ingested = <<>>
    /\ documents = <<>>
    /\ postings = <<>>
    /\ tokens = <<>>
    /\ doc_id = 0
    /\ saved = FALSE
    /\ MergeIdle
    /\ QueryIdle

NextCrawl ==
    \/ SkipVisited
    \/ FetchFails
    \/ EmptyText
    \/ SavePage
    \/ LoopExit

SpecCrawl == InitCrawl /\ [][NextCrawl]_vars

\* crawl is one sequential loop and every GET returns: an iteration that can
\* run does run.
SpecCrawlFair == SpecCrawl /\ WF_vars(NextCrawl)

(***************************************************************************)
(* Claims about build_index (Spec).                                        *)
(***************************************************************************)
\* C4: in every state reachable during build_index, tokens repeated inside
\* one document included, every postings list is strictly ascending and so
\* holds no document id twice.
C4_PostingsAscending ==
    \A term \in DOMAIN postings : StrictlyAscending(postings[term])

\* The second file repeats a word the first file holds, and is indexed.
C4_Witness ==
    /\ Len(ingested) = 2
    /\ ingested[1].text = "grado"
    /\ ingested[2].text = "grado grado"
    /\ tokens = <<>>
    /\ postings = ("grado" :> <<0, 1>>)

\* The terms of each text a file may hold: its tokens, stopwords removed.
TermsOfText ==
    [text \in {data.text : data \in Files} |-> ListSet(tokenize(text)) \ stop_words]

\* C5: once build_index has processed d0, ..., d(n-1) in that order,
\* documents[k].url is dk.url for every k, and postings[t] is exactly the
\* ascending list of the k such that t occurs in dk's tokens after stopword
\* removal; a term that occurs in no document is no postings key.
C5_PostingsOfInputs ==
    tokens = <<>>
    => LET FilesWith(term) ==
               {k \in 0..(Len(ingested) - 1) : term \in TermsOfText[ingested[k + 1].text]}
       IN  /\ Len(documents) = Len(ingested)
           /\ \A k \in 1..Len(ingested) : documents[k].url = ingested[k].url
           /\ DOMAIN postings = {term \in Words : FilesWith(term) # {}}
           /\ \A term \in DOMAIN postings :
                /\ StrictlyAscending(postings[term])
                /\ ListSet(postings[term]) = FilesWith(term)

\* Two files with different urls are built and saved; "master" is in d1 only
\* and d1 also holds a stopword.
C5_Witness ==
    /\ saved
    /\ ingested = <<[url |-> "u1", text |-> "grado"], [url |-> "u2", text |-> "en master"]>>
    /\ documents[1].url = "u1"
    /\ documents[2].url = "u2"
    /\ postings = ("grado" :> <<0>>) @@ ("master" :> <<1>>)

\* The state part of C6.
DenseIds ==
    /\ \A i \in 1..Len(documents) : documents[i].id = i - 1
    /\ \A term \in DOMAIN postings :
         \A id \in ListSet(postings[term]) : 0 <= id /\ id < Len(documents)

\* The step part of C6: a Document, once in the table, stays as it is.
DocumentsKept ==
    /\ Len(documents') >= Len(documents)
    /\ \A i \in 1..Len(documents) : documents'[i] = documents[i]

\* C6: in every state reachable during build_index, documents[i].id = i for
\* every i (dense, from 0; an assigned id is never changed or reused), and
\* every id in a postings list is at least 0 and below len(documents).
C6_DenseIds == [](DenseIds) /\ [][DocumentsKept]_vars

\* Three postings entries over two documents, the second file being indexed.
C6_Witness ==
    /\ Len(documents) = 2
    /\ documents[1].id = 0
    /\ documents[2].id = 1
    /\ tokens = <<"master">>
    /\ postings = ("grado" :> <<0, 1>>) @@ ("master" :> <<0>>)

\* The texts a file may hold that leave no token: every word is a stopword.
EmptyTexts ==
    {text \in {data.text : data \in Files} :
        \A i \in 1..Len(split(text)) : split(text)[i] \in stop_words}

\* The state part of C14: no postings list holds the id of such an input.
NoPostingOfEmptyInput ==
    \A k \in 1..Len(ingested) :
        ingested[k].text \in EmptyTexts
        => \A term \in DOMAIN postings : ~InList(k - 1, postings[term])

\* The step part of C14: the step that ingests such an input appends one
\* Document with the next id, changes no postings entry, and leaves no token
\* for the loop of lines 94-98.
EmptyInputStep ==
    (Len(ingested') = Len(ingested) + 1 /\ ingested'[Len(ingested')].text \in EmptyTexts)
    => /\ Len(documents') = Len(documents) + 1
       /\ SubSeq(documents', 1, Len(documents)) = documents
       /\ documents'[Len(documents')].id = Len(documents)
       /\ documents'[Len(documents')].url = ingested'[Len(ingested')].url
       /\ postings' = postings
       /\ tokens' = <<>>

\* C14: when build_index ingests an input whose token sequence is empty
\* after normalization and stopword removal, the document table grows by
\* exactly one Document with the next sequential id, and the postings
\* mapping is left unchanged: no key added, no list extended.
C14_EmptyInputAddsDocumentOnly == [](NoPostingOfEmptyInput) /\ [][EmptyInputStep]_vars

\* The second file holds a stopword only: it is document 1 and the postings
\* are those of the first file.
C14_Witness ==
    /\ Len(ingested) = 2
    /\ ingested[1].text = "grado"
    /\ ingested[2].text = "en"
    /\ Len(documents) = 2
    /\ documents[2].id = 1
    /\ tokens = <<>>
    /\ postings = ("grado" :> <<0>>)

\* The fold build_index agrees with the stepwise run of the loop.
BuildIndexAgrees ==
    saved => build_index(ingested) = [documents |-> documents, postings |-> postings]

(***************************************************************************)
(* The merge primitives on their own: Init draws the arguments and the     *)
(* size of the loaded document table, the actions call the primitives.     *)
(***************************************************************************)
MaxId == 2
MaxLen == 3

\* A file with one indexed word; n of them make a document table of size n.
MergeFile == [url |-> "u1", text |-> "grado"]

PostingLists == SeqsUpTo(0..MaxId, MaxLen)

InitMerge ==
    /\ \E n \in 0..(MaxId + 1) : Loaded([k \in 1..n |-> MergeFile])
    /\ posting_a \in PostingLists
    /\ posting_b \in {l \in PostingLists : StrictlyAscending(l)}
    /\ merge_op = "none"
    /\ merge_result = None
    /\ QueryIdle
    /\ CrawlIdle

CallAnd ==
    /\ merge_op' = "and"
    /\ merge_result' = _and_(posting_a, posting_b)
    /\ UNCHANGED <<crawl_vars, indexer_vars, query_vars, posting_a, posting_b>>

CallOr ==
    /\ merge_op' = "or"
    /\ merge_result' = _or_(posting_a, posting_b)
    /\ UNCHANGED <<crawl_vars, indexer_vars, query_vars, posting_a, posting_b>>

CallNot ==
    /\ merge_op' = "not"
    /\ merge_result' = _not_(posting_a)
    /\ UNCHANGED <<crawl_vars, indexer_vars, query_vars, posting_a, posting_b>>

\* _not_ called on what _not_(posting_a) returned.
CallNotAgain ==
    /\ merge_op = "not"
    /\ merge_op' = "notnot"
    /\ merge_result' = _not_(merge_result)
    /\ UNCHANGED <<crawl_vars, indexer_vars, query_vars, posting_a, posting_b>>

NextMerge == CallAnd \/ CallOr \/ CallNot \/ CallNotAgain

SpecMerge == InitMerge /\ [][NextMerge]_vars

(***************************************************************************)
(* Retriever.search_query, one token (or operator and operand) at a time,  *)
(* over a loaded index.                                                    *)
(***************************************************************************)
MaxQueryLen == 6
SnippetLen == 200

\* A long word that no query of the model asks for.
Filler == "universidadeuropeademadrid"

\* A text of 221 characters, more than a snippet holds.
LongText == join([k \in 1..9 |-> IF k = 1 THEN "grado" ELSE Filler])

\* A text of exactly 200 characters.
FullText ==
    join([k \in 1..12 |-> IF k <= 3 THEN "master" ELSE IF k <= 6 THEN "grado" ELSE Filler])

\* The input folders the loaded indexes are built from: none, one with a
\* single term, the two-document one of the docstring's query, and two of
\* three documents where postings overlap and a document has no term or a
\* text as long as, or longer than, a snippet.
SampleFolders ==
    { <<>>,
      <<[url |-> "u1", text |-> "grado"]>>,
      <<[url |-> "u1", text |-> "grado"], [url |-> "u2", text |-> "master"]>>,
      <<[url |-> "u1", text |-> "grado en master"], [url |-> "u2", text |-> ""],
        [url |-> "u3", text |-> "master"]>>,
      <<[url |-> "u1", text |-> "master"], [url |-> "u2", text |-> LongText],
        [url |-> "u3", text |-> FullText]>> }

Operators == {"AND", "OR", "NOT"}
QueryTokens == {"grado", "master"} \cup Operators
Queries == {join(ts) : ts \in SeqsUpTo(QueryTokens, MaxQueryLen)}

Result(url, snippet) == [url |-> url, snippet |-> snippet]

\* snippet_of without the cut.
whole_text(text) == text

\* text[:200].
snippet_of(text) ==
    SubSeq(text, 1, IF Len(text) < SnippetLen THEN Len(text) ELSE SnippetLen)

(***************************************************************************)
(* List objects.  Python lists are shared by reference: the accumulator    *)
(* may be the very list object of a postings entry, and what is appended   *)
(* to a shared object shows in the index.  acc_alias names the postings    *)
(* entry the accumulator shares its object with.                           *)
(***************************************************************************)
\* postings.get(key, []): the stored list object, or a new empty list.
get_object(dict, key) == IF key \in DOMAIN dict THEN key ELSE NoAlias

\* result_object accumulating into posting_a itself.
result_in_place(object_a) == object_a

\* Lines 115 and 144: `result = []` is a new list, whatever posting_a is.
result_object(object_a) == NoAlias

\* Lines 112-126: the object _and_ returns: the new [] of line 113 or result.
and_object(posting_a_, object_a, posting_b_) ==
    IF Falsy(posting_a_) \/ Falsy(posting_b_) THEN NoAlias ELSE result_object(object_a)

\* Lines 139-155: the object _or_ returns: posting_b or posting_a itself on
\* the short cuts, else result.
or_object(posting_a_, object_a, posting_b_, object_b) ==
    IF Falsy(posting_a_) THEN object_b
    ELSE IF Falsy(posting_b_) THEN object_a
    ELSE result_object(object_a)

\* The index once the list object `object` holds `list`: a postings entry
\* that is this object holds it too.
stored(p, object, list) ==
    IF object \in DOMAIN p THEN [p EXCEPT ![object] = list] ELSE p

\* Lines 38-39.
SearchQuery ==
    /\ q_pc = "idle"
    /\ \E q \in Queries :
        /\ query' = q
        /\ terms' = split(q)
    /\ temp_postings' = None
    /\ acc_alias' = NoAlias
    /\ results' = None
    /\ q_pc' = "loop"
    /\ UNCHANGED <<crawl_vars, indexer_vars, merge_vars>>

\* Lines 44, 47, 50: terms.pop(0) on the empty list raises IndexError, which
\* nothing catches: the call ends without a return value.
PopFromEmpty ==
    /\ q_pc = "loop"
    /\ terms # <<>>
    /\ Head(terms) \in Operators
    /\ Tail(terms) = <<>>
    /\ terms' = <<>>
    /\ q_pc' = "raised"
    /\ UNCHANGED <<crawl_vars, indexer_vars, merge_vars, query, temp_postings, acc_alias, results>>

\* Lines 43-45.
StepAnd ==
    /\ q_pc = "loop"
    /\ terms # <<>>
    /\ Head(terms) = "AND"
    /\ Tail(terms) # <<>>
    /\ LET next_term == Head(Tail(terms))
           next_postings == Get(postings, next_term)
       IN  /\ temp_postings' = _and_(temp_postings, next_postings)
           /\ acc_alias' = and_object(temp_postings, acc_alias, next_postings)
    /\ postings' = stored(postings, acc_alias', temp_postings')
    /\ terms' = Tail(Tail(terms))
    /\ UNCHANGED <<crawl_vars, index_rest, merge_vars, query, results, q_pc>>

\* Lines 46-48.
StepOr ==
    /\ q_pc = "loop"
    /\ terms # <<>>
    /\ Head(terms) = "OR"
    /\ Tail(terms) # <<>>
    /\ LET next_term == Head(Tail(terms))
           next_postings == Get(postings, next_term)
       IN  /\ temp_postings' = _or_(temp_postings, next_postings)
           /\ acc_alias' = or_object(temp_postings, acc_alias,
                                     next_postings, get_object(postings, next_term))
    /\ postings' = stored(postings, acc_alias', temp_postings')
    /\ terms' = Tail(Tail(terms))
    /\ UNCHANGED <<crawl_vars, index_rest, merge_vars, query, results, q_pc>>

\* Lines 49-52.
StepNot ==
    /\ q_pc = "loop"
    /\ terms # <<>>
    /\ Head(terms) = "NOT"
    /\ Tail(terms) # <<>>
    /\ LET next_term == Head(Tail(terms))
           not_postings == _not_(Get(postings, next_term))
       IN  /\ temp_postings' = IF temp_postings = None
                               THEN not_postings
                               ELSE _and_(temp_postings, not_postings)
           /\ acc_alias' = IF temp_postings = None
                           THEN NoAlias
                           ELSE and_object(temp_postings, acc_alias, not_postings)
    /\ postings' = stored(postings, acc_alias', temp_postings')
    /\ terms' = Tail(Tail(terms))
    /\ UNCHANGED <<crawl_vars, index_rest, merge_vars, query, results, q_pc>>

\* Line 55: the list object the accumulator is after a bare term.
bare_term_object(acc, acc_object, term_postings, term_object) ==
    IF acc = None THEN term_object
    ELSE or_object(acc, acc_object, term_postings, term_object)

\* bare_term with _and_ in the place of _or_.
bare_term_and(acc, term_postings) ==
    IF acc = None THEN term_postings ELSE _and_(acc, term_postings)

\* Line 55.
bare_term(acc, term_postings) ==
    IF acc = None THEN term_postings ELSE _or_(acc, term_postings)

\* Lines 53-55.
StepTerm ==
    /\ q_pc = "loop"
    /\ terms # <<>>
    /\ Head(terms) \notin Operators
    /\ temp_postings' = bare_term(temp_postings, Get(postings, Head(terms)))
    /\ acc_alias' = bare_term_object(temp_postings, acc_alias, Get(postings, Head(terms)),
                                     get_object(postings, Head(terms)))
    /\ postings' = stored(postings, acc_alias', temp_postings')
    /\ terms' = Tail(terms)
    /\ UNCHANGED <<crawl_vars, index_rest, merge_vars, query, results, q_pc>>

\* Lines 57-66: the loop is over.  documents[doc_id] raises IndexError for an
\* id outside the table.
Return ==
    /\ q_pc = "loop"
    /\ terms = <<>>
    /\ IF temp_postings = None
       THEN results' = <<>> /\ q_pc' = "returned"
       ELSE IF \E k \in 1..Len(temp_postings) : temp_postings[k] >= Len(documents)
       THEN results' = None /\ q_pc' = "raised"
       ELSE /\ results' = [k \in 1..Len(temp_postings) |->
                            LET document == documents[temp_postings[k] + 1]
                            IN  Result(document.url, snippet_of(document.text))]
            /\ q_pc' = "returned"
    /\ UNCHANGED <<crawl_vars, indexer_vars, merge_vars, query, terms, temp_postings, acc_alias>>

\* The caller has taken the outcome of the call and may call again (as the
\* loop of search_from_file does, lines 81-83).
NextCall ==
    /\ q_pc \in {"returned", "raised"}
    /\ query' = ""
    /\ terms' = <<>>
    /\ temp_postings' = None
    /\ acc_alias' = NoAlias
    /\ results' = None
    /\ q_pc' = "idle"
    /\ UNCHANGED <<crawl_vars, indexer_vars, merge_vars>>

InitQuery ==
    /\ \E files \in SampleFolders : Loaded(files)
    /\ MergeIdle
    /\ QueryIdle
    /\ CrawlIdle

NextQuery ==
    \/ SearchQuery
    \/ PopFromEmpty
    \/ StepAnd
    \/ StepOr
    \/ StepNot
    \/ StepTerm
    \/ Return
    \/ NextCall

SpecQuery == InitQuery /\ [][NextQuery]_vars

(***************************************************************************)
(* Claims about search_query (SpecQuery).                                  *)
(***************************************************************************)
\* postings(t) as a set of ids; empty for a term that is no key.
PostingSet(t) == IF t \in DOMAIN postings THEN ListSet(postings[t]) ELSE {}

\* The ids of the loaded document table.
Universe == 0..(Len(documents) - 1)

\* The accumulator of the left-to-right fold: unset, or a set of ids.
Unset == [set |-> FALSE, ids |-> {}]
SetTo(ids) == [set |-> TRUE, ids |-> ids]

\* One rule of the fold.  A binary operator met while the accumulator is
\* unset reads it as the empty set.
FoldRule(acc, op, t) ==
    CASE op = "AND" -> SetTo(acc.ids \cap PostingSet(t))
      [] op = "OR" -> SetTo(acc.ids \cup PostingSet(t))
      [] op = "NOT" -> IF acc.set
                       THEN SetTo(acc.ids \cap (Universe \ PostingSet(t)))
                       ELSE SetTo(Universe \ PostingSet(t))
      [] OTHER -> SetTo(acc.ids \cup PostingSet(t))

\* The strict left-to-right fold over the tokens ts of a well-formed query.
RECURSIVE Fold(_, _)
Fold(acc, ts) ==
    IF ts = <<>> THEN acc
    ELSE IF Head(ts) \in Operators
         THEN Fold(FoldRule(acc, Head(ts), ts[2]), Tail(Tail(ts)))
         ELSE Fold(FoldRule(acc, "", Head(ts)), Tail(ts))

\* Each AND/OR/NOT token is immediately followed by a search term.
WellFormed(ts) ==
    \A i \in 1..Len(ts) :
        ts[i] \in Operators => (i < Len(ts) /\ ts[i + 1] \notin Operators)

\* The results of the documents of a set of ids, in ascending id order.
ResultsOf(ids) ==
    LET order == CHOOSE l \in [1..Cardinality(ids) -> ids] : StrictlyAscending(l)
    IN  [k \in 1..Cardinality(ids) |->
            Result(documents[order[k] + 1].url, snippet_of(documents[order[k] + 1].text))]

\* The call has returned exactly the documents `ids`.
Returned(ids) ==
    /\ q_pc = "returned"
    /\ results = ResultsOf(ids)
    /\ IF temp_postings = None THEN ids = {} ELSE ListSet(temp_postings) = ids

\* C1: on an index that satisfies the postings invariants and a query in
\* which every AND/OR/NOT is immediately followed by a search term,
\* search_query raises nothing and returns the documents of the strict
\* left-to-right fold: a bare term is OR'd into the accumulator, AND t
\* intersects, OR t unites, NOT t intersects with the complement, a term that
\* is no key has empty postings, and no precedence is applied.
C1_LeftToRightFold ==
    (q_pc \in {"returned", "raised"} /\ WellFormed(split(query)))
    => Returned(Fold(Unset, split(query)).ids)

\* "grado OR master AND master" has returned document 1 alone, where AND
\* binding tighter than OR would return documents 0 and 1.
C1_Witness ==
    /\ q_pc = "returned"
    /\ query = "grado OR master AND master"
    /\ postings = ("grado" :> <<0>>) @@ ("master" :> <<1>>)
    /\ temp_postings = <<1>>
    /\ results = <<Result("u2", "master")>>

\* C2: a query of the form 'a AND NOT b OR c' returns exactly the documents
\* of (postings(a) INTERSECT complement(postings(b))) UNION postings(c): the
\* NOT that follows AND is an operator, not a search term.
C2_AndNotOr ==
    \A a, b, c \in QueryTokens \ Operators :
        (q_pc \in {"returned", "raised"} /\ query = join(<<a, "AND", "NOT", b, "OR", c>>))
        => Returned((PostingSet(a) \cap (Universe \ PostingSet(b))) \cup PostingSet(c))

\* The last token of the query is an operator.
DanglingOperator(ts) == ts # <<>> /\ ts[Len(ts)] \in Operators

\* C3: a query whose last token is AND, OR or NOT ends in an error surfaced
\* to the caller: the call raises and returns no result list.
C3_DanglingOperatorRaises ==
    (q_pc \in {"returned", "raised"} /\ DanglingOperator(split(query)))
    => (q_pc = "raised" /\ results = None)

\* The ids of an accumulator; none while it is unset.
AccSet(acc) == IF acc = None THEN {} ELSE ListSet(acc)

\* The state part of C11: the query was one search term that is no key.
UnknownTermAlone ==
    (/\ q_pc \in {"returned", "raised"}
     /\ Len(split(query)) = 1
     /\ split(query)[1] \notin Operators
     /\ split(query)[1] \notin DOMAIN postings)
    => (q_pc = "returned" /\ results = <<>>)

\* The step part of C11: an iteration of the loop whose operand (the bare
\* term, or the token after the operator) is no key leaves the accumulator
\* as the empty posting list leaves it.
UnknownTermStep ==
    (q_pc = "loop" /\ terms # <<>> /\ q_pc' = "loop")
    => LET op == Head(terms)
           operand == IF op \in Operators THEN terms[2] ELSE op
       IN  operand \notin DOMAIN postings
           => /\ temp_postings' # None
              /\ ListSet(temp_postings') =
                    CASE op = "AND" -> {}
                      [] op = "NOT" -> IF temp_postings = None
                                       THEN Universe
                                       ELSE AccSet(temp_postings)
                      [] OTHER -> AccSet(temp_postings)

\* C11: a query that is a single term absent from the postings keys returns
\* the empty result sequence and raises nothing; an unknown term anywhere in
\* a query is evaluated as the empty posting list.
C11_UnknownTermIsEmpty == [](UnknownTermAlone) /\ [][UnknownTermStep]_vars

\* "master" has been searched in an index that holds "grado" only.
C11_Witness ==
    /\ q_pc = "returned"
    /\ query = "master"
    /\ DOMAIN postings = {"grado"}
    /\ temp_postings = <<>>
    /\ results = <<>>

\* `snippet` is the first SnippetLen characters of `text`: the whole text
\* when it is no longer than that, else SnippetLen characters that the rest
\* of the text follows.
IsSnippet(snippet, text) ==
    IF Len(text) <= SnippetLen
    THEN snippet = text
    ELSE /\ Len(snippet) = SnippetLen
         /\ snippet \o SubSeq(text, SnippetLen + 1, Len(text)) = text

\* C12: a query that evaluates without error returns exactly one Result per
\* document id of the final accumulated list, in ascending id order, with
\* the url of documents[id] and the first 200 characters of its text as
\* snippet.
C12_ResultsOfAccumulator ==
    q_pc = "returned"
    => LET ids == IF temp_postings = None THEN <<>> ELSE temp_postings
       IN  /\ StrictlyAscending(ids)
           /\ Len(results) = Len(ids)
           /\ \A k \in 1..Len(ids) :
                /\ results[k].url = documents[ids[k] + 1].url
                /\ IsSnippet(results[k].snippet, documents[ids[k] + 1].text)

\* "master grado" has returned the results of documents of 6, 221 and 200
\* characters: the second snippet is cut to 200 characters.
C12_Witness ==
    /\ q_pc = "returned"
    /\ query = "master grado"
    /\ temp_postings = <<0, 1, 2>>
    /\ Len(documents[2].text) = 221
    /\ Len(documents[3].text) = 200
    /\ Len(results) = 3
    /\ results[1] = Result("u1", "master")
    /\ results[2].url = "u2"
    /\ Len(results[2].snippet) = 200
    /\ results[3] = Result("u3", documents[3].text)

\* C13: once the index is loaded, no step of any sequence of search_query
\* calls changes index.postings or index.documents, also when the
\* accumulator is the list object of a postings entry (taken from the index
\* or handed back by a short cut of _or_).
C13_IndexReadOnly == [][postings' = postings /\ documents' = documents]_vars

\* "master OR grado" has returned where "master" is no key: _or_ handed back
\* the list object of postings["grado"], and it is returned as the result.
C13_Witness ==
    /\ q_pc = "returned"
    /\ query = "master OR grado"
    /\ DOMAIN postings = {"grado"}
    /\ acc_alias = "grado"
    /\ temp_postings = postings["grado"]
    /\ temp_postings = <<0>>

\* The state part of C15.
AccumulatorInRange ==
    \/ temp_postings = None
    \/ /\ StrictlyAscending(temp_postings)
       /\ \A k \in 1..Len(temp_postings) :
            /\ 0 <= temp_postings[k]
            /\ temp_postings[k] <= Len(documents) - 1
            /\ temp_postings[k] + 1 \in DOMAIN documents

\* The step part of C15: once the tokens are consumed, materialization
\* returns; no lookup of lines 60-61 raises.
LookupInRange == (q_pc = "loop" /\ terms = <<>>) => q_pc' = "returned"

\* C15: the index being one build_index made, after every token
\* search_query consumes, operators that follow operators included, the
\* accumulator is unset or a strictly ascending list, so without duplicates,
\* of ids from 0 to len(documents) - 1: documents[doc_id] of line 61 is never
\* out of range.
C15_AccumulatorInRange == [](AccumulatorInRange) /\ [][LookupInRange]_vars

\* NOT has taken the operator AND for its term and complemented the empty
\* list: all three documents are accumulated, merged with a term, returned.
C15_Witness ==
    /\ q_pc = "returned"
    /\ query = "NOT AND grado"
    /\ Len(documents) = 3
    /\ temp_postings = <<0, 1, 2>>
    /\ Len(results) = 3

\* C16: a query whose first token is a binary operator, the accumulator
\* being unset, is not rejected: for every index and search term t, "AND t"
\* raises nothing and returns the empty result sequence, and "OR t" raises
\* nothing and returns exactly the results of postings(t).
C16_LeadingOperator ==
    \A t \in QueryTokens \ Operators :
        /\ (q_pc \in {"returned", "raised"} /\ query = join(<<"AND", t>>))
           => (q_pc = "returned" /\ results = <<>> /\ temp_postings = <<>>)
        /\ (q_pc \in {"returned", "raised"} /\ query = join(<<"OR", t>>))
           => Returned(PostingSet(t))

\* "AND grado" has returned nothing from an index where "grado" is a key.
C16_Witness ==
    /\ q_pc = "returned"
    /\ query = "AND grado"
    /\ postings = ("grado" :> <<0>>) @@ ("master" :> <<1>>)
    /\ temp_postings = <<>>
    /\ results = <<>>

(***************************************************************************)
(* Claims about the merge primitives (SpecMerge).                          *)
(***************************************************************************)
\* C7: for strictly ascending, duplicate-free lists a and b (empty ones and
\* ones that share elements included), _or_(a, b) is strictly ascending,
\* duplicate-free and has exactly the elements of the union of a and b.
C7_OrIsUnion ==
    (merge_op = "or" /\ StrictlyAscending(posting_a) /\ StrictlyAscending(posting_b))
    => /\ StrictlyAscending(merge_result)
       /\ ListSet(merge_result) = ListSet(posting_a) \cup ListSet(posting_b)

\* _or_ has merged two lists that interleave and share their last element.
C7_Witness ==
    /\ merge_op = "or"
    /\ posting_a = <<0, 2>>
    /\ posting_b = <<1, 2>>
    /\ merge_result = <<0, 1, 2>>

\* C8: for strictly ascending, duplicate-free lists a and b, _and_(a, b) is
\* strictly ascending, duplicate-free and has exactly the elements of the
\* intersection of a and b; it is empty whenever either input is empty.
C8_AndIsIntersection ==
    (merge_op = "and" /\ StrictlyAscending(posting_a) /\ StrictlyAscending(posting_b))
    => /\ StrictlyAscending(merge_result)
       /\ ListSet(merge_result) = ListSet(posting_a) \cap ListSet(posting_b)
       /\ (posting_a = <<>> \/ posting_b = <<>>) => merge_result = <<>>

\* _and_ has intersected two lists that differ and share two elements.
C8_Witness ==
    /\ merge_op = "and"
    /\ posting_a = <<0, 1, 2>>
    /\ posting_b = <<1, 2>>
    /\ merge_result = <<1, 2>>

\* C9: for a loaded index of document_count documents and any list a of ids
\* (sorted or not, with or without repeats, inside the universe or not),
\* _not_(a) is the strictly ascending list of exactly the ids of
\* 0..document_count-1 that are not in a.
C9_NotIsComplement ==
    merge_op = "not"
    => /\ StrictlyAscending(merge_result)
       /\ ListSet(merge_result) = (0..(Len(documents) - 1)) \ ListSet(posting_a)

\* _not_ has complemented an unsorted list with a repeat in a table of 3.
C9_Witness ==
    /\ merge_op = "not"
    /\ Len(documents) = 3
    /\ posting_a = <<2, 0, 2>>
    /\ merge_result = <<1>>

\* C10: for a strictly ascending, duplicate-free list a of ids inside the
\* universe, _or_(a, a) = a, _and_(a, a) = a and _not_(_not_(a)) = a, as lists.
C10_Idempotence ==
    (/\ StrictlyAscending(posting_a)
     /\ ListSet(posting_a) \subseteq 0..(Len(documents) - 1))
    => /\ (merge_op = "or" /\ posting_b = posting_a) => merge_result = posting_a
       /\ (merge_op = "and" /\ posting_b = posting_a) => merge_result = posting_a
       /\ merge_op = "notnot" => merge_result = posting_a

\* _not_ has been applied twice to a two-element list in a table of 3.
C10_Witness ==
    /\ merge_op = "notnot"
    /\ Len(documents) = 3
    /\ posting_a = <<0, 2>>
    /\ merge_result = <<0, 2>>

(***************************************************************************)
(* Claims about crawl (SpecCrawl, SpecCrawlFair).                          *)
(***************************************************************************)
\* The state part of C17.
SavedWithinLimit ==
    /\ Len(pages) <= max_webs
    /\ \A i, j \in 1..Len(pages) : i # j => pages[i].url # pages[j].url

\* The step part of C17: the iteration that takes a visited url from the
\* queue makes no GET and saves nothing.
VisitedNotFetchedAgain ==
    (c_pc = "loop" /\ loop_condition /\ Head(queue) \in visited)
    => /\ response' = response
       /\ pages' = pages
       /\ visited' = visited
       /\ crawled_count' = crawled_count

\* C17: in every state reachable during crawl, for any link graph and any
\* pattern of fetch failures, at most max_webs pages are saved and no url is
\* saved twice; a url in the visited set is never fetched or saved again,
\* even if it was enqueued several times before it was visited.
C17_SavedOnceWithinLimit == [](SavedWithinLimit) /\ [][VisitedNotFetchedAgain]_vars

\* w3 was enqueued by the page of w1 and again by the page of w2, both times
\* before it was visited: it was saved once, and its second copy was taken
\* from the queue and skipped.
C17_Witness ==
    /\ c_pc = "loop"
    /\ links = [url \in Web |-> CASE url = "w1" -> {"w2", "w3"}
                                  [] url = "w2" -> {"w3"}
                                  [] OTHER -> {"w1"}]
    /\ max_webs = 4
    /\ pages = <<[filename |-> 0, url |-> "w1"], [filename |-> 1, url |-> "w2"],
                 [filename |-> 2, url |-> "w3"]>>
    /\ response = [url |-> "w3", status |-> "ok"]
    /\ queue = <<>>

\* C18: crawl always terminates, every GET returning and every page holding
\* finitely many links: the loop ends also when urls fail at every GET and
\* when the link graph has cycles.
C18_CrawlTerminates == <>(c_pc = "done")

\* crawl has returned on a web with a cycle through every url, below its
\* limit: w1 was saved, the GETs of w2 and w3 failed, the queue ran out.
C18_Witness ==
    /\ c_pc = "done"
    /\ links = [url \in Web |-> Web]
    /\ max_webs = 4
    /\ crawled_count = 1
    /\ visited = {"w1"}
    /\ response.status = "error"
    /\ queue = <<>>
====
